---- MODULE Spec2Model ----
(***************************************************************************)
(* Model of the notebook "1. Building an in-the-wild texture model".       *)
(*                                                                         *)
(* The notebook is a sequence of cells.  Its state is the configuration    *)
(* (DIAGONAL_RANGE, FEATURE_F), the lazy lists it builds, the one-entry    *)
(* cache of load_trilist, the matrices X and m, and the exported object.   *)
(* The dataset on disk is chosen in Init.  Coordinates are exact rationals *)
(* <<numerator, denominator>> in lowest terms, so that two meshes are      *)
(* equal exactly when their coordinates are.                               *)
(***************************************************************************)
EXTENDS Integers, Sequences, FiniteSets, TLC

(***************************************************************************)
(* Bounds of the model.                                                    *)
(***************************************************************************)
\* number of image paths the glob of line 138 finds
NumPaths == 2
\* largest value tried for n_imgs_for_rpca (line 217); one more than NumPaths
\* so that the prefix slice is also taken past the end of the list
MaxImgsForRpca == 3
\* cap on the reads of model_info.mat that are counted
MaxTrilistLoads == 2

(***************************************************************************)
(* Exact rational arithmetic.                                              *)
(***************************************************************************)
Abs(n) == IF n < 0 THEN -n ELSE n

RECURSIVE GCD(_, _)
GCD(a, b) == IF b = 0 THEN a ELSE GCD(b, a % b)

Norm(n, d) ==
    LET g == GCD(Abs(n), Abs(d))
        s == IF d < 0 THEN -1 ELSE 1
    IN  <<(s * n) \div g, (s * d) \div g>>

R(n) == <<n, 1>>
RMul(a, b) == Norm(a[1] * b[1], a[2] * b[2])
RDiv(a, b) == Norm(a[1] * b[2], a[2] * b[1])
RAdd(a, b) == Norm(a[1] * b[2] + b[1] * a[2], a[2] * b[2])
RSub(a, b) == Norm(a[1] * b[2] - b[1] * a[2], a[2] * b[2])
RLess(a, b) == a[1] * b[2] < b[1] * a[2]
RLeq(a, b) == a[1] * b[2] <= b[1] * a[2]
RMaxOf(S) == CHOOSE x \in S : \A y \in S : RLeq(y, x)
RMinOf(S) == CHOOSE x \in S : \A y \in S : RLeq(x, y)
\* numpy.ceil of a rational
Ceil(a) == -((-a[1]) \div a[2])

RECURSIVE IsqrtIn(_, _, _)
IsqrtIn(n, lo, hi) ==
    IF lo >= hi THEN lo
    ELSE LET mid == (lo + hi + 1) \div 2
         IN  IF mid * mid <= n THEN IsqrtIn(n, mid, hi) ELSE IsqrtIn(n, lo, mid - 1)

Isqrt(n) == IsqrtIn(n, 0, IF n < 46340 THEN n ELSE 46340)

\* numpy.sqrt: exact when numerator and denominator are perfect squares (every
\* diagonal of the datasets below is), rounded otherwise as a float sqrt is
RSqrt(a) == Norm(Isqrt(a[1]), Isqrt(a[2]))

Min(a, b) == IF a < b THEN a ELSE b

\* an optional value: <<>> is Python's "not defined yet", <<x>> holds x
None == <<>>
Some(x) == <<x>>

(***************************************************************************)
(* The notebook's variables and what lies outside it.                      *)
(***************************************************************************)
VARIABLES
    DIAGONAL_RANGE,           \* line 78
    FEATURE_F,                \* line 81
    disk,                     \* the files under DATA_PATH, per image path
    img_paths,                \* line 138
    imgs_features_and_fits,   \* line 143
    features_and_fits,        \* line 173
    features_and_fits_32bit,  \* line 216
    n_imgs_for_rpca,          \* line 217
    rpca_input,               \* the slice of line 219
    pc,                       \* position inside the cell of lines 211-219
    trilist_cache,            \* the lru_cache(1) of load_trilist
    trilist_loads,            \* successful reads of model_info.mat so far
    fit_obj,                  \* per path, the TriMesh object last built
    reads,                    \* files read so far
    errors,                   \* exceptions raised so far, with the operation
    accessed,                 \* paths whose sample was asked for so far
    first_sample,             \* per index, the first imgs_features_and_fits[i]
    last_sample,              \* per index, the latest imgs_features_and_fits[i]
    reindexed,                \* whether an index returned before was asked again
    fed,                      \* what the builder of line 219 was given
    X,                        \* line 219
    m,                        \* line 219
    itw_texture_model,        \* line 219
    printed,                  \* the pair printed at line 183
    exported                  \* the object pickled at lines 280-287

vars == <<DIAGONAL_RANGE, FEATURE_F, disk, img_paths, imgs_features_and_fits,
          features_and_fits, features_and_fits_32bit, n_imgs_for_rpca,
          rpca_input, pc, trilist_cache, trilist_loads, fit_obj, reads, errors,
          accessed, first_sample, last_sample, reindexed, fed, X, m,
          itw_texture_model, printed, exported>>

(***************************************************************************)
(* The dataset.  A fit file holds 'Fitted_Face', a 3 x N array whose       *)
(* columns are (x, y, z) with MATLAB's 1-based pixel coordinates; N = 3.   *)
(* The first fit lies inside its image, which is not square.  The second   *)
(* has a vertex on the first row of its image (y = 1), which the load      *)
(* places at Y = height, and others past the border.  The third image has  *)
(* no fit file.                                                            *)
(***************************************************************************)
FitInside == << <<2, 3, 1>>, <<5, 7, -2>>, <<3, 4, 0>> >>
FitPastBorder == << <<-2, 1, 1>>, <<4, 9, 2>>, <<1, 5, -1>> >>

DiskEntries ==
    { [shape |-> <<7, 13>>, has_fit |-> TRUE,  Fitted_Face |-> FitInside],
      [shape |-> <<7, 7>>,  has_fit |-> TRUE,  Fitted_Face |-> FitPastBorder],
      [shape |-> <<7, 7>>,  has_fit |-> FALSE, Fitted_Face |-> <<>>] }

\* 'tri' of model_info.mat: a 3 x T array of 1-based vertex indices, by column
TriOnDisk == << <<1, 2, 3>>, <<3, 2, 1>> >>

\* values the configuration cell (lines 77-81) may be edited to
ConfiguredDiagonals == {180, 5}
ConfiguredFeatures == {"fast_dsift", "no_op"}

\* channels of the feature image each feature function returns
NChannels(f) == IF f = "fast_dsift" THEN 8 ELSE 1

(***************************************************************************)
(* The world a sample load acts on: the cache of load_trilist, the count   *)
(* of reads of model_info.mat, the files read, and the mesh objects alive. *)
(* The functions below take it as w and return it changed.                 *)
(***************************************************************************)
World ==
    [cache |-> trilist_cache, loads |-> trilist_loads, reads |-> reads,
     objs |-> fit_obj]

\* load_trilist without its lru_cache: the file is read on every call
load_trilist_uncached(w) ==
    LET trilist ==
            [ref |-> "load_trilist",
             data |-> [t \in 1..Len(TriOnDisk) |->
                          <<TriOnDisk[t][2] - 1, TriOnDisk[t][1] - 1,
                            TriOnDisk[t][3] - 1>>]]
    IN  [value |-> trilist,
         w |-> [w EXCEPT !.cache = Some(trilist), !.loads = @ + 1,
                         !.reads = @ \cup {<<"tri", 0>>}]]

\* lines 92-96.  lru_cache(1) on a function without arguments: the file is read
\* when nothing is cached, and the array returned then is the one kept.
\* trilist[[1, 0, 2]].T - 1 swaps the first two rows and shifts to 0-based.
load_trilist(w) ==
    IF w.cache # None
    THEN [value |-> w.cache[1], w |-> w]
    ELSE LET trilist ==
                 [ref |-> "load_trilist",
                  data |-> [t \in 1..Len(TriOnDisk) |->
                               <<TriOnDisk[t][2] - 1, TriOnDisk[t][1] - 1,
                                 TriOnDisk[t][3] - 1>>]]
         IN  [value |-> trilist,
              w |-> [w EXCEPT !.cache = Some(trilist), !.loads = @ + 1,
                              !.reads = @ \cup {<<"tri", 0>>}]]

\* line 104: menpo's TriMesh(points, trilist) with its default copy=True keeps
\* its own copies of both arrays
TriMesh(points, trilist) ==
    [points |-> points, trilist |-> [ref |-> "TriMesh", data |-> trilist.data]]

\* lines 99-105.  raw_3d_fit[:2][::-1] - 1 is (y - 1, x - 1); row 0 becomes
\* img.shape[0] - (y - 1); the depth is negated.
convert_raw_3d_fit_to_img_trimesh_fit(raw_3d_fit, img, w) ==
    LET img_points_3d ==
            [v \in 1..Len(raw_3d_fit) |->
                <<R(img.shape[1] - (raw_3d_fit[v][2] - 1)),
                  R(raw_3d_fit[v][1] - 1),
                  R(raw_3d_fit[v][3] * (-1))>>]
        t == load_trilist(w)
    IN  [fit |-> TriMesh(img_points_3d, t.value), w |-> t.w]

\* load_img_and_fit behind a cache of its own: a path loaded before gives the
\* mesh object built then, as the earlier access left it
load_img_and_fit_memoized(i, w) ==
    LET img == [src |-> i, shape |-> disk[i].shape, landmarks |-> None]
        w1 == [w EXCEPT !.reads = @ \cup {<<"img", i>>}]
    IN  IF ~disk[i].has_fit
        THEN [ok |-> FALSE, err |-> <<"FileNotFoundError", "fit", i>>, w |-> w1]
        ELSE IF w.objs[i] # None
        THEN [ok |-> TRUE, err |-> <<>>, img |-> img, fit |-> w.objs[i][1], w |-> w]
        ELSE LET c == convert_raw_3d_fit_to_img_trimesh_fit(
                          disk[i].Fitted_Face, img,
                          [w1 EXCEPT !.reads = @ \cup {<<"fit", i>>}])
             IN  [ok |-> TRUE, err |-> <<>>, img |-> img, fit |-> c.fit,
                  w |-> [c.w EXCEPT !.objs[i] = Some(c.fit)]]

\* lines 108-115.  The image is read first, then the fit file; a missing fit
\* file makes sio.loadmat raise, and nothing after it runs.
load_img_and_fit(i, w) ==
    LET img == [src |-> i, shape |-> disk[i].shape, landmarks |-> None]
        w1 == [w EXCEPT !.reads = @ \cup {<<"img", i>>}]
    IN  IF ~disk[i].has_fit
        THEN [ok |-> FALSE, err |-> <<"FileNotFoundError", "fit", i>>, w |-> w1]
        ELSE LET c == convert_raw_3d_fit_to_img_trimesh_fit(
                          disk[i].Fitted_Face, img,
                          [w1 EXCEPT !.reads = @ \cup {<<"fit", i>>}])
             IN  [ok |-> TRUE, err |-> <<>>, img |-> img, fit |-> c.fit,
                  w |-> [c.w EXCEPT !.objs[i] = Some(c.fit)]]

\* line 122: PointCloud(fit_trimesh_3d.points[:, :2]), a copy of columns Y, X
PointCloud2d(points) == [v \in 1..Len(points) |-> <<points[v][1], points[v][2]>>]

\* menpo's Image.rescale as line 123 reaches it: the new shape is the scaled
\* shape rounded up, and the landmarks are scaled per axis by
\* (scale * shape - 1) / (shape - 1), the ratio of the largest pixel indices;
\* the transform returned maps the rescaled image back to the original.
rescale(img, scale) ==
    LET fY == RDiv(RSub(RMul(scale, R(img.shape[1])), R(1)), R(img.shape[1] - 1))
        fX == RDiv(RSub(RMul(scale, R(img.shape[2])), R(1)), R(img.shape[2] - 1))
        lms == img.landmarks[1]
    IN  [img |-> [src |-> img.src,
                  shape |-> <<Ceil(RMul(scale, R(img.shape[1]))),
                              Ceil(RMul(scale, R(img.shape[2])))>>,
                  landmarks |-> Some([v \in 1..Len(lms) |->
                                         <<RMul(lms[v][1], fY), RMul(lms[v][2], fX)>>])],
         tr |-> [scale |-> <<RDiv(R(1), fY), RDiv(R(1), fX)>>]]

\* the extent of a point cloud along axis a (PointCloud.range)
Range(points, a) ==
    RSub(RMaxOf({points[v][a] : v \in 1..Len(points)}),
         RMinOf({points[v][a] : v \in 1..Len(points)}))

\* line 123: menpo's rescale_landmarks_to_diagonal_range: the scale is the
\* diagonal asked for over the diagonal of the landmarks' bounding box
rescale_landmarks_to_diagonal_range(img, diagonal_range) ==
    LET y == Range(img.landmarks[1], 1)
        x == Range(img.landmarks[1], 2)
        scale == RDiv(R(diagonal_range), RSqrt(RAdd(RMul(x, x), RMul(y, y))))
    IN  rescale(img, scale)

\* line 125 left out: the mesh keeps the coordinates it was loaded with
fit_points_2d_stale(img, fit) == PointCloud2d(fit.points)

\* line 125, right-hand side: the rescaled landmarks
fit_points_2d(img, fit) == img.landmarks[1]

\* line 126 with the transform read the other way round
fit_depth_multiplied(z, tr) == RMul(z, tr.scale[1])

\* line 126, right-hand side (tr.scale[0] is tr.scale[1] here, 1-based)
fit_depth(z, tr) == RDiv(z, tr.scale[1])

\* line 128 with the feature taken on the image as loaded
feature_image_of_loaded(img_rescaled, img_loaded) ==
    [function |-> FEATURE_F, src |-> img_loaded.src, shape |-> img_loaded.shape,
     n_channels |-> NChannels(FEATURE_F), dtype |-> "float64"]

\* line 128: the feature is taken on the rescaled image.  The feature function
\* is opaque: its result is identified by the image it was computed from, and
\* is taken to keep that image's pixel grid.
feature_image(img_rescaled, img_loaded) ==
    [function |-> FEATURE_F, src |-> img_rescaled.src, shape |-> img_rescaled.shape,
     n_channels |-> NChannels(FEATURE_F), dtype |-> "float64"]

\* lines 118-129.  The result carries, beside the triple returned, what the
\* load saw before the rescale (loaded, src_shape), which the properties read.
load_data_with_feature_sample(i, w) ==
    LET l == load_img_and_fit(i, w)
    IN  IF ~l.ok
        THEN [ok |-> FALSE, err |-> l.err, val |-> <<>>, w |-> l.w,
              loaded |-> <<>>, src_shape |-> <<>>, arg |-> None]
        ELSE LET img0 == [l.img EXCEPT !.landmarks = Some(PointCloud2d(l.fit.points))]
                 rs == rescale_landmarks_to_diagonal_range(img0, DIAGONAL_RANGE)
                 p2 == fit_points_2d(rs.img, l.fit)
                 fit == [l.fit EXCEPT !.points =
                            [v \in 1..Len(l.fit.points) |->
                                <<p2[v][1], p2[v][2],
                                  fit_depth(l.fit.points[v][3], rs.tr)>>]]
                 feat == feature_image(rs.img, img0)
             IN  [ok |-> TRUE, err |-> <<>>, val |-> <<rs.img, feat, fit>>,
                  w |-> [l.w EXCEPT !.objs[i] = Some(fit)],
                  loaded |-> l.fit.points, src_shape |-> l.img.shape, arg |-> None]

(***************************************************************************)
(* menpo's LazyList: a list of callables.  A callable is the item it       *)
(* starts from and the functions mapped over it so far, applied only when  *)
(* an index is asked for.                                                  *)
(***************************************************************************)
\* line 173: lambda x: x[1:]
drop_img(x) == Tail(x)

\* as_float32 without its img.copy(): the argument itself is converted
as_float32_in_place(img) ==
    [ret |-> [img EXCEPT !.dtype = "float32"],
     arg |-> [img EXCEPT !.dtype = "float32"]]

\* lines 211-214: the copy gets the float32 pixels; ret is the image returned
\* and arg is the argument as the call leaves it
as_float32(img) ==
    [ret |-> [img EXCEPT !.dtype = "float32"], arg |-> img]

\* line 216: lambda x: (as_float32(x[0]), x[1])
pair_as_float32(x) == <<as_float32(x[1]).ret, x[2]>>

apply_map(f, r) ==
    CASE f = "load_data_with_feature_sample" ->
             load_data_with_feature_sample(r.val, r.w)
      [] f = "drop_img" -> [r EXCEPT !.val = drop_img(@)]
      [] f = "pair_as_float32" ->
             [r EXCEPT !.val = pair_as_float32(@),
                       !.arg = Some(as_float32(r.val[1]).arg)]

RECURSIVE apply_maps(_, _, _)
apply_maps(r, maps, k) ==
    IF k > Len(maps) \/ ~r.ok THEN r
    ELSE apply_maps(apply_map(maps[k], r), maps, k + 1)

\* LazyList.__getitem__ with an integer: the callable is called
call(c, w) ==
    apply_maps([ok |-> TRUE, err |-> <<>>, val |-> c.item, w |-> w,
                loaded |-> <<>>, src_shape |-> <<>>, arg |-> None],
               c.maps, 1)

\* iterating a LazyList calls its callables in order; the first exception ends
\* the iteration.  acc collects the values, the paths they came from and the
\* arguments as_float32 was given, as left by it.
RECURSIVE consume(_, _, _)
consume(ll, k, acc) ==
    IF k > Len(ll) \/ ~acc.ok THEN acc
    ELSE LET r == call(ll[k], acc.w)
         IN  consume(ll, k + 1,
                 IF r.ok
                 THEN [acc EXCEPT !.items = Append(@, r.val),
                                  !.paths = Append(@, ll[k].item),
                                  !.args = Append(@, r.arg),
                                  !.w = r.w]
                 ELSE [acc EXCEPT !.ok = FALSE, !.err = r.err, !.at = k,
                                  !.paths = Append(@, ll[k].item),
                                  !.w = r.w])

\* a listing that leaves out the images without a fit file
image_paths_with_fit ==
    SelectSeq([k \in 1..NumPaths |-> k], LAMBDA k : disk[k].has_fit)

\* line 138: list(mio.image_paths(...)): every image under 300W-3D, in order;
\* a path is named by its position in that listing
image_paths == [k \in 1..NumPaths |-> k]

\* line 143: LazyList.init_from_iterable
LazyList_init_from_iterable(items) ==
    [k \in 1..Len(items) |-> [item |-> items[k], maps |-> <<>>]]

\* an eager map: every element is computed when the list is built
LazyList_map_eager(ll, f, w) ==
    LET list == [k \in 1..Len(ll) |-> [ll[k] EXCEPT !.maps = Append(@, f)]]
        acc == consume(list, 1,
                   [ok |-> TRUE, err |-> <<>>, at |-> 0, items |-> <<>>,
                    paths |-> <<>>, args |-> <<>>, w |-> w])
    IN  [list |-> list, w |-> acc.w,
         raised |-> IF acc.ok THEN {} ELSE {<<"LazyList.map", acc.at, acc.err>>}]

\* lines 143, 173, 216: LazyList.map composes f onto every callable and
\* evaluates none, so the world is returned as it was and nothing is raised
LazyList_map(ll, f, w) ==
    [list |-> [k \in 1..Len(ll) |-> [ll[k] EXCEPT !.maps = Append(@, f)]],
     w |-> w, raised |-> {}]

\* a slice that takes one element too many
LazyList_slice_inclusive(ll, n) == SubSeq(ll, 1, Min(n + 1, Len(ll)))

\* line 219: the slice [:n] of a LazyList is the LazyList of its first n
\* callables, or of all of them when there are fewer
LazyList_slice(ll, n) == SubSeq(ll, 1, Min(n, Len(ll)))

(***************************************************************************)
(* The texture model builder, as section 4.4 of the specification states   *)
(* it: one row of X and one of m per sample, each vertex's texture sampled *)
(* at its projection, the vertex's mask repeated over the channels.        *)
(***************************************************************************)
in_bounds(shape, p) ==
    /\ RLeq(R(0), p[1]) /\ RLess(p[1], R(shape[1]))
    /\ RLeq(R(0), p[2]) /\ RLess(p[2], R(shape[2]))

texture_row(feat, fit) ==
    [j \in 1..(Len(fit.points) * feat.n_channels) |->
        100 * feat.src + 10 * (((j - 1) \div feat.n_channels) + 1)
          + (((j - 1) % feat.n_channels) + 1)]

mask_row(feat, fit) ==
    [j \in 1..(Len(fit.points) * feat.n_channels) |->
        in_bounds(feat.shape, fit.points[((j - 1) \div feat.n_channels) + 1])]

generate_texture_model_from_image_3d_fits(items) ==
    [X |-> [i \in 1..Len(items) |-> texture_row(items[i][1], items[i][2])],
     m |-> [i \in 1..Len(items) |-> mask_row(items[i][1], items[i][2])],
     model |-> [n_samples |-> Len(items), dtype |-> items[1][1].dtype]]

(***************************************************************************)
(* The cells.                                                              *)
(***************************************************************************)
\* the literals of the export cell
ExportedDiagonalRange == 180
ExportedFeatureFunction == "fast_dsift"

Init ==
    /\ DIAGONAL_RANGE \in ConfiguredDiagonals
    /\ FEATURE_F \in ConfiguredFeatures
    /\ disk \in [1..NumPaths -> DiskEntries]
    /\ img_paths = None
    /\ imgs_features_and_fits = None
    /\ features_and_fits = None
    /\ features_and_fits_32bit = None
    /\ n_imgs_for_rpca = None
    /\ rpca_input = None
    /\ pc = "idle"
    /\ trilist_cache = None
    /\ trilist_loads = 0
    /\ fit_obj = [i \in 1..NumPaths |-> None]
    /\ reads = {}
    /\ errors = {}
    /\ accessed = {}
    /\ first_sample = [i \in 1..NumPaths |-> None]
    /\ last_sample = [i \in 1..NumPaths |-> None]
    /\ reindexed = FALSE
    /\ fed = None
    /\ X = None
    /\ m = None
    /\ itw_texture_model = None
    /\ printed = None
    /\ exported = None

SetWorld(w) ==
    /\ trilist_cache' = w.cache
    /\ trilist_loads' = w.loads
    /\ reads' = w.reads
    /\ fit_obj' = w.objs

\* lines 138-144
ConstructLazyList ==
    /\ pc = "idle"
    /\ img_paths = None
    /\ \E paths \in {image_paths} :
       \E c \in {LazyList_map(LazyList_init_from_iterable(paths),
                              "load_data_with_feature_sample", World)} :
           /\ img_paths' = Some(paths)
           /\ imgs_features_and_fits' = Some(c.list)
           /\ SetWorld(c.w)
           /\ errors' = errors \cup c.raised
    /\ UNCHANGED <<DIAGONAL_RANGE, FEATURE_F, disk, features_and_fits,
                   features_and_fits_32bit, n_imgs_for_rpca, rpca_input, pc,
                   accessed, first_sample, last_sample, reindexed, fed, X, m,
                   itw_texture_model, printed, exported>>

\* lines 155 and 251: imgs_features_and_fits[k - 1]
IndexSample(k) ==
    /\ pc = "idle"
    /\ imgs_features_and_fits # None
    /\ k \in 1..Len(imgs_features_and_fits[1])
    /\ \E r \in {call(imgs_features_and_fits[1][k], World)} :
       LET c == imgs_features_and_fits[1][k]
           S == [img |-> r.val[1], feat |-> r.val[2], fit |-> r.val[3],
                 loaded |-> r.loaded, src_shape |-> r.src_shape, path |-> c.item]
       IN  /\ r.w.loads <= MaxTrilistLoads
           /\ SetWorld(r.w)
           /\ accessed' = accessed \cup {c.item}
           /\ IF r.ok
              THEN /\ last_sample' = [last_sample EXCEPT ![k] = Some(S)]
                   /\ first_sample' = IF first_sample[k] = None
                                      THEN [first_sample EXCEPT ![k] = Some(S)]
                                      ELSE first_sample
                   /\ reindexed' = (reindexed \/ first_sample[k] # None)
                   /\ errors' = errors
              ELSE /\ errors' = errors \cup {<<"imgs_features_and_fits", k, r.err>>}
                   /\ UNCHANGED <<first_sample, last_sample, reindexed>>
    /\ UNCHANGED <<DIAGONAL_RANGE, FEATURE_F, disk, img_paths,
                   imgs_features_and_fits, features_and_fits,
                   features_and_fits_32bit, n_imgs_for_rpca, rpca_input, pc,
                   fed, X, m, itw_texture_model, printed, exported>>

\* line 173
MapDropImg ==
    /\ pc = "idle"
    /\ imgs_features_and_fits # None
    /\ features_and_fits = None
    /\ \E c \in {LazyList_map(imgs_features_and_fits[1], "drop_img", World)} :
           /\ features_and_fits' = Some(c.list)
           /\ SetWorld(c.w)
           /\ errors' = errors \cup c.raised
    /\ UNCHANGED <<DIAGONAL_RANGE, FEATURE_F, disk, img_paths,
                   imgs_features_and_fits, features_and_fits_32bit,
                   n_imgs_for_rpca, rpca_input, pc, accessed, first_sample,
                   last_sample, reindexed, fed, X, m, itw_texture_model, printed, exported>>

\* line 183: print(features_and_fits[0])
PrintFirstPair ==
    /\ pc = "idle"
    /\ features_and_fits # None
    /\ Len(features_and_fits[1]) >= 1
    /\ \E r \in {call(features_and_fits[1][1], World)} :
       LET c == features_and_fits[1][1]
       IN  /\ r.w.loads <= MaxTrilistLoads
           /\ SetWorld(r.w)
           /\ accessed' = accessed \cup {c.item}
           /\ IF r.ok
              THEN /\ printed' = Some(r.val)
                   /\ errors' = errors
              ELSE /\ errors' = errors \cup {<<"features_and_fits", 1, r.err>>}
                   /\ printed' = printed
    /\ UNCHANGED <<DIAGONAL_RANGE, FEATURE_F, disk, img_paths,
                   imgs_features_and_fits, features_and_fits,
                   features_and_fits_32bit, n_imgs_for_rpca, rpca_input, pc,
                   first_sample, last_sample, reindexed, fed, X, m, itw_texture_model,
                   exported>>

\* line 216
MapFloat32 ==
    /\ pc = "idle"
    /\ features_and_fits # None
    /\ features_and_fits_32bit = None
    /\ \E c \in {LazyList_map(features_and_fits[1], "pair_as_float32", World)} :
           /\ features_and_fits_32bit' = Some(c.list)
           /\ SetWorld(c.w)
           /\ errors' = errors \cup c.raised
    /\ pc' = "line217"
    /\ UNCHANGED <<DIAGONAL_RANGE, FEATURE_F, disk, img_paths,
                   imgs_features_and_fits, features_and_fits, n_imgs_for_rpca,
                   rpca_input, accessed, first_sample, last_sample, reindexed, fed, X, m,
                   itw_texture_model, printed, exported>>

\* line 217 and the slice of line 219
SlicePrefix(n) ==
    /\ pc = "line217"
    /\ n_imgs_for_rpca' = Some(n)
    /\ rpca_input' = Some(LazyList_slice(features_and_fits_32bit[1], n))
    /\ pc' = "line219"
    /\ UNCHANGED <<DIAGONAL_RANGE, FEATURE_F, disk, img_paths,
                   imgs_features_and_fits, features_and_fits,
                   features_and_fits_32bit, trilist_cache, trilist_loads,
                   fit_obj, reads, errors, accessed, first_sample, last_sample, reindexed,
                   fed, X, m, itw_texture_model, printed, exported>>

\* line 219: the call of the builder, which iterates the slice; an exception of
\* a sample, or an empty slice, ends the cell with X, m and the model unset
BuildTextureModel ==
    /\ pc = "line219"
    /\ \E acc \in {consume(rpca_input[1], 1,
                      [ok |-> TRUE, err |-> <<>>, at |-> 0, items |-> <<>>,
                       paths |-> <<>>, args |-> <<>>, w |-> World])} :
           /\ acc.w.loads <= MaxTrilistLoads
           /\ SetWorld(acc.w)
           /\ accessed' = accessed \cup {acc.paths[k] : k \in 1..Len(acc.paths)}
           /\ IF acc.ok /\ Len(acc.items) > 0
              THEN \E b \in {generate_texture_model_from_image_3d_fits(acc.items)} :
                       /\ X' = Some(b.X)
                       /\ m' = Some(b.m)
                       /\ itw_texture_model' = Some(b.model)
                       /\ fed' = Some([items |-> acc.items, paths |-> acc.paths,
                                       args |-> acc.args])
                       /\ errors' = errors
              ELSE /\ errors' = errors \cup
                          {<<"generate_texture_model_from_image_3d_fits", acc.at,
                             IF acc.ok THEN <<"ValueError", "empty", 0>> ELSE acc.err>>}
                   /\ UNCHANGED <<X, m, itw_texture_model, fed>>
    /\ pc' = "idle"
    /\ UNCHANGED <<DIAGONAL_RANGE, FEATURE_F, disk, img_paths,
                   imgs_features_and_fits, features_and_fits,
                   features_and_fits_32bit, n_imgs_for_rpca, rpca_input,
                   first_sample, last_sample, reindexed, printed, exported>>

\* lines 280-287
ExportModel ==
    /\ pc = "idle"
    /\ itw_texture_model # None
    /\ exported = None
    /\ exported' = Some([texture_model |-> itw_texture_model[1],
                         diagonal_range |-> ExportedDiagonalRange,
                         feature_function |-> ExportedFeatureFunction])
    /\ UNCHANGED <<DIAGONAL_RANGE, FEATURE_F, disk, img_paths,
                   imgs_features_and_fits, features_and_fits,
                   features_and_fits_32bit, n_imgs_for_rpca, rpca_input, pc,
                   trilist_cache, trilist_loads, fit_obj, reads, errors,
                   accessed, first_sample, last_sample, reindexed, fed, X, m,
                   itw_texture_model, printed>>

Next ==
    \/ ConstructLazyList
    \/ \E k \in 1..NumPaths : IndexSample(k)
    \/ MapDropImg
    \/ PrintFirstPair
    \/ MapFloat32
    \/ \E n \in 0..MaxImgsForRpca : SlicePrefix(n)
    \/ BuildTextureModel
    \/ ExportModel

Spec == Init /\ [][Next]_vars

(***************************************************************************)
(* Properties.                                                             *)
(***************************************************************************)
\* the samples imgs_features_and_fits has returned, by index
Returned == {k \in 1..NumPaths : last_sample[k] # None}
Sample(k) == last_sample[k][1]
Vertices(k) == 1..Len(Sample(k).fit.points)

Square(a) == RMul(a, a)

\* the squared diagonal of the bounding box of the first two coordinates
BoxDiagonal2(points) == RAdd(Square(Range(points, 1)), Square(Range(points, 2)))

\* the diagonal of the fit as load_img_and_fit returned it
LoadedDiagonal(k) == RSqrt(BoxDiagonal2(Sample(k).loaded))

\* what the diagonal becomes when both axes are scaled as an axis of n pixels
\* is: DIAGONAL_RANGE + (DIAGONAL_RANGE - d) / (n - 1)
AxisDiagonal(n, d) == RDiv(RSub(R(DIAGONAL_RANGE * n), d), R(n - 1))

\* 0 <= Y < height and 0 <= X < width
InGrid(shape, p) ==
    /\ RLeq(R(0), p[1]) /\ RLess(p[1], R(shape[1]))
    /\ RLeq(R(0), p[2]) /\ RLess(p[2], R(shape[2]))

\* Y and X within the pixel indices 0..height-1 and 0..width-1
InIndexRange(shape, p) ==
    /\ RLeq(R(0), p[1]) /\ RLeq(p[1], R(shape[1] - 1))
    /\ RLeq(R(0), p[2]) /\ RLeq(p[2], R(shape[2] - 1))

C2_DepthScaledLikeYAndX ==
    \A k \in Returned : \A u, v \in Vertices(k) :
        LET l == Sample(k).loaded
            q == Sample(k).fit.points
        IN  /\ RMul(q[v][3], l[u][1]) = RMul(l[v][3], q[u][1])
            /\ RMul(q[v][3], l[u][2]) = RMul(l[v][3], q[u][2])

\* C2, amended: the depth is scaled by the factor applied to Y (the inverse of
\* tr.scale[0]); X is scaled by that same factor when the source image is
\* square or the loaded fit already has the diagonal DIAGONAL_RANGE.
C2_DepthScaledLikeY ==
    \A k \in Returned : \A u, v \in Vertices(k) :
        LET l == Sample(k).loaded
            q == Sample(k).fit.points
        IN  /\ RMul(q[v][3], l[u][1]) = RMul(l[v][3], q[u][1])
            /\ (\/ Sample(k).src_shape[1] = Sample(k).src_shape[2]
                \/ LoadedDiagonal(k) = R(DIAGONAL_RANGE))
               => RMul(q[v][3], l[u][2]) = RMul(l[v][3], q[u][2])

\* C2, witness: a returned mesh has a vertex of nonzero depth whose depth the
\* rescale changed, in a sample whose Y coordinates are not all zero.
C2_Witness ==
    \E k \in Returned : \E u, v \in Vertices(k) :
        /\ Sample(k).loaded[v][3] # R(0)
        /\ Sample(k).fit.points[v][3] # Sample(k).loaded[v][3]
        /\ Sample(k).loaded[u][1] # R(0)

C4_Restartable ==
    \A k \in Returned :
        /\ first_sample[k] # None
        /\ Sample(k).feat = first_sample[k][1].feat
        /\ Sample(k).fit.points = first_sample[k][1].fit.points
        /\ Sample(k).fit.trilist.data = first_sample[k][1].fit.trilist.data

\* C4, witness: an index has been accessed a second time after another path
\* was accessed too, and the rescale had changed its mesh.
C4_Witness ==
    \E k \in Returned :
        /\ reindexed
        /\ accessed \ {Sample(k).path} # {}
        /\ Sample(k).fit.points # Sample(k).loaded

\* the files of the samples asked for so far, and the connectivity file
FilesOfAccessed ==
    {<<"img", i>> : i \in accessed} \cup {<<"fit", i>> : i \in accessed}
        \cup {<<"tri", 0>>}

\* C5: building, mapping and slicing the lazy lists reads no file and raises
\* nothing: every file read belongs to a sample that was asked for, every
\* error was raised by an access, for a path that access asked for.
C5_ReadsOnlyOnAccess ==
    /\ reads \subseteq FilesOfAccessed
    /\ accessed = {} => reads = {}
    /\ \A e \in errors :
          /\ e[1] \in {"imgs_features_and_fits", "features_and_fits",
                       "generate_texture_model_from_image_3d_fits"}
          /\ e[3][1] = "FileNotFoundError" => e[3][3] \in accessed

\* C5, witness: all four lists exist, the last by slicing, after index 1 alone
\* was accessed: the files of path 1 are read, no file of path 2 is.
C5_Witness ==
    /\ rpca_input # None
    /\ pc = "line219"
    /\ accessed = {1}
    /\ <<"img", 1>> \in reads
    /\ <<"img", 2>> \notin reads

\* C6: the list keeps one position per image path, position k holding path k;
\* an access of a path without a fit file raises the load error and returns
\* nothing; an index whose files exist can be accessed in every state.
C6_MissingFitFails ==
    imgs_features_and_fits # None =>
        /\ Len(imgs_features_and_fits[1]) = NumPaths
        /\ \A k \in 1..NumPaths :
              /\ imgs_features_and_fits[1][k].item = k
              /\ ~disk[k].has_fit =>
                    /\ last_sample[k] = None
                    /\ k \in accessed =>
                          \E e \in errors : e[3] = <<"FileNotFoundError", "fit", k>>
              /\ call(imgs_features_and_fits[1][k], World).ok = disk[k].has_fit

\* C6, witness: the access of index 1, whose fit file is missing, has raised,
\* index 2 has returned a sample, and a returned index has been accessed again.
C6_Witness ==
    /\ <<"imgs_features_and_fits", 1, <<"FileNotFoundError", "fit", 1>>>> \in errors
    /\ 2 \in Returned
    /\ reindexed

\* the meshes produced so far
Meshes ==
    {Sample(k).fit : k \in Returned}
        \cup (IF printed = None THEN {} ELSE {printed[1][2]})
        \cup (IF fed = None THEN {}
              ELSE {fed[1].items[k][2] : k \in 1..Len(fed[1].items)})

\* C7, as claimed: the connectivity file is read at most once, the cached
\* array stays what was read, and every mesh holds that very array.
C7_TrilistSharedByReference ==
    /\ trilist_loads <= 1
    /\ trilist_cache # None => trilist_cache[1].data = << <<1, 0, 2>>, <<1, 2, 0>> >>
    /\ \A mesh \in Meshes :
          /\ trilist_cache # None
          /\ mesh.trilist.data = trilist_cache[1].data
          /\ mesh.trilist.ref = trilist_cache[1].ref

\* C7, amended: the connectivity file is read at most once, the cached array
\* stays what was read, and every mesh holds an array equal to it in content,
\* which is the mesh's own copy.
C7_TrilistSharedByContent ==
    /\ trilist_loads <= 1
    /\ trilist_cache # None => trilist_cache[1].data = << <<1, 0, 2>>, <<1, 2, 0>> >>
    /\ \A mesh \in Meshes :
          /\ trilist_cache # None
          /\ mesh.trilist.data = trilist_cache[1].data
          /\ mesh.trilist.ref # trilist_cache[1].ref

\* C7, witness: two samples have been returned, one of them twice, and the
\* file was read once.
C7_Witness ==
    /\ trilist_loads = 1
    /\ Cardinality(Returned) >= 2
    /\ reindexed

\* C8, as claimed: the exported object records the diagonal range and the
\* feature function that the samples were made with.
C8_ExportRecordsConfiguration ==
    exported # None =>
        /\ exported[1].diagonal_range = DIAGONAL_RANGE
        /\ exported[1].feature_function = FEATURE_F

C10_IndexCorrespondence ==
    /\ rpca_input # None =>
          /\ Len(rpca_input[1]) = Min(n_imgs_for_rpca[1], Len(img_paths[1]))
          /\ \A k \in 1..Len(rpca_input[1]) : rpca_input[1][k].item = img_paths[1][k]
    /\ fed # None =>
          /\ Len(fed[1].items) = Len(rpca_input[1])
          /\ \A k \in 1..Len(fed[1].items) :
                /\ fed[1].paths[k] = img_paths[1][k]
                /\ fed[1].items[k][1].src = img_paths[1][k]
                /\ fed[1].items[k][1].dtype = "float32"
                /\ fed[1].args[k] # None
                /\ fed[1].args[k][1].dtype = "float64"
                /\ k \in Returned =>
                      /\ fed[1].args[k][1] = Sample(k).feat
                      /\ fed[1].items[k][1] = [Sample(k).feat EXCEPT !.dtype = "float32"]
                      /\ fed[1].items[k][2] = Sample(k).fit

\* C10, witness: the builder got a proper prefix, shorter than the list, and
\* its last element has also been asked of imgs_features_and_fits.
C10_Witness ==
    /\ fed # None
    /\ Len(fed[1].items) < NumPaths
    /\ Len(fed[1].items) \in Returned

====
